---- MODULE Spec2Model ----
(***************************************************************************)
(* A model of the assistant bot's command layer (bot_helper/bot.py): the   *)
(* command table, the parser, the command handlers, the input_error        *)
(* decorator and the main loop, over the contact store they call.          *)
(*                                                                         *)
(* Strings are tuples of one-character strings, so that prefixes, case     *)
(* folding, splitting and substring search are computed, not assumed.      *)
(* The AddressBook, Record, Birthday and persistence classes are imported  *)
(* by bot.py from modules that are not part of the sources at hand; they   *)
(* are modelled from the written specification (sections 3, 4 and 7).      *)
(***************************************************************************)
EXTENDS Integers, Sequences, FiniteSets, TLC

VARIABLES
    cli_input,   \* the line returned by prompt() in this iteration
    resolved,    \* what parse_cli_command returned: <<func_name, func, func_args>>
    contacts,    \* AddressBook in memory: records in store (insertion) order
    disk,        \* the content of address_book.json as last flushed
    status,      \* "running", "ended" (break), or "crashed" (an exception left main)
    printed,     \* what print() wrote in this iteration
    raised,      \* the exception class that escaped from func(*func_args), or ""
    calls,       \* the store and record methods this iteration called, in order
    pre,         \* contacts as they were when the line was read
    pre_disk,    \* disk as it was when the line was read
    failures,    \* how many flushes have failed so far
    pc,          \* position of the parser harness: "read" or "parsed"
    fs_files,    \* FileOrganizer: the regular files under root_dir
    fs_dirs,     \* FileOrganizer: the directories under root_dir, root_dir included
    fs0,         \* FileOrganizer: the regular files when organize_files was called
    pending,     \* FileOrganizer: the paths that glob has still to yield
    fo_status    \* FileOrganizer: "idle", "walking", "done" or "crashed"

fovars == <<fs_files, fs_dirs, fs0, pending, fo_status>>

vars == <<cli_input, resolved, contacts, disk, status, printed, raised, calls,
          pre, pre_disk, failures, pc, fs_files, fs_dirs, fs0, pending, fo_status>>

(***************************************************************************)
(* Bounds.                                                                 *)
(***************************************************************************)
MaxFlushFailures == 1

\* the number of files in the tree given to the file organizer
MaxFiles == 2

(***************************************************************************)
(* Characters and strings.                                                 *)
(***************************************************************************)
UpperAlpha == <<"A","B","C","D","E","F","G","H","I","J","K","L","M","N","O","P","Q","R","S","T","U","V","W","X","Y","Z">>
LowerAlpha == <<"a","b","c","d","e","f","g","h","i","j","k","l","m","n","o","p","q","r","s","t","u","v","w","x","y","z">>
Digits == <<"0","1","2","3","4","5","6","7","8","9">>

IndexOf(seq, c) == CHOOSE i \in 1..Len(seq) : seq[i] = c

IsIn(seq, c) == \E i \in 1..Len(seq) : seq[i] = c

\* str.lower() on one character
lower_char(c) == IF IsIn(UpperAlpha, c) THEN LowerAlpha[IndexOf(UpperAlpha, c)] ELSE c

\* str.lower()
lower(s) == [i \in 1..Len(s) |-> lower_char(s[i])]

\* str.upper(), used to build inputs only
upper(s) == [i \in 1..Len(s) |->
               IF IsIn(LowerAlpha, s[i]) THEN UpperAlpha[IndexOf(LowerAlpha, s[i])]
               ELSE s[i]]

\* str.startswith(prefix)
startswith(s, prefix) ==
    /\ Len(prefix) <= Len(s)
    /\ \A i \in 1..Len(prefix) : s[i] = prefix[i]

\* s[n:]
slice_from(s, n) == IF n >= Len(s) THEN <<>> ELSE SubSeq(s, n + 1, Len(s))

IsSpace(c) == c \in {" ", "\t", "\n"}

RECURSIVE lstrip(_)
lstrip(s) == IF s # <<>> /\ IsSpace(Head(s)) THEN lstrip(Tail(s)) ELSE s

RECURSIVE rstrip(_)
rstrip(s) == IF s # <<>> /\ IsSpace(s[Len(s)])
             THEN rstrip(SubSeq(s, 1, Len(s) - 1)) ELSE s

\* str.strip()
strip(s) == rstrip(lstrip(s))

\* str.split(): split on runs of whitespace, no empty words.
\* cur is the word being collected, acc the words already finished.
RECURSIVE split_ws(_, _, _)
split_ws(s, cur, acc) ==
    IF s = <<>> THEN (IF cur = <<>> THEN acc ELSE Append(acc, cur))
    ELSE IF IsSpace(Head(s))
         THEN split_ws(Tail(s), <<>>, IF cur = <<>> THEN acc ELSE Append(acc, cur))
         ELSE split_ws(Tail(s), Append(cur, Head(s)), acc)

split(s) == split_ws(s, <<>>, <<>>)

Sp == <<" ">>

\* sep.join(words)
RECURSIVE join(_, _)
join(sep, ws) ==
    IF ws = <<>> THEN <<>>
    ELSE IF Len(ws) = 1 THEN ws[1]
    ELSE ws[1] \o sep \o join(sep, Tail(ws))

\* str.split(sep) for a non-empty separator: empty pieces are kept
RECURSIVE split_sep(_, _, _, _)
split_sep(s, sep, cur, acc) ==
    IF s = <<>> THEN Append(acc, cur)
    ELSE IF startswith(s, sep)
         THEN split_sep(slice_from(s, Len(sep)), sep, <<>>, Append(acc, cur))
         ELSE split_sep(Tail(s), sep, Append(cur, Head(s)), acc)

\* needle in haystack
contains(haystack, needle) ==
    \E k \in 0..(Len(haystack) - Len(needle)) :
        \A i \in 1..Len(needle) : haystack[k + i] = needle[i]

(***************************************************************************)
(* The command table, in the order the dict literal lists it.              *)
(***************************************************************************)
COMMANDS ==
  << [name |-> <<"h","e","l","p">>,
      func |-> "help_command"],
     [name |-> <<"h","e","l","l","o">>,
      func |-> "hello"],
     [name |-> <<"a","d","d"," ","c","o","n","t","a","c","t">>,
      func |-> "add_contact"],
     [name |-> <<"d","e","l","e","t","e"," ","c","o","n","t","a","c","t">>,
      func |-> "delete_contact"],
     [name |-> <<"c","h","a","n","g","e">>,
      func |-> "change_phone"],
     [name |-> <<"u","p","d","a","t","e"," ","b","i","r","t","h","d","a","y">>,
      func |-> "update_birthday"],
     [name |-> <<"p","h","o","n","e">>,
      func |-> "find_contact_phone"],
     [name |-> <<"s","h","o","w"," ","a","l","l"," ","c","o","n","t","a","c","t","s">>,
      func |-> "show_all"],
     [name |-> <<"g","o","o","d"," ","b","y","e">>,
      func |-> "good_bye"],
     [name |-> <<"c","l","o","s","e">>,
      func |-> "good_bye"],
     [name |-> <<"e","x","i","t">>,
      func |-> "good_bye"],
     [name |-> <<"s","h","o","w"," ","d","a","y","s"," ","t","o"," ","b","i","r","t","h","d","a","y">>,
      func |-> "show_days_to_birthday"],
     [name |-> <<"s","e","a","r","c","h"," ","c","o","n","t","a","c","t">>,
      func |-> "search_contact"],
     [name |-> <<"a","d","d"," ","p","h","o","n","e">>,
      func |-> "add_phone"],
     [name |-> <<"a","d","d"," ","a","d","d","r","e","s","s">>,
      func |-> "add_address"],
     [name |-> <<"a","d","d"," ","e","m","a","i","l">>,
      func |-> "add_email"],
     [name |-> <<"u","p","c","o","m","i","n","g"," ","b","i","r","t","h","d","a","y","s">>,
      func |-> "upcoming_birthdays"],
     [name |-> <<"a","d","d"," ","n","o","t","e">>,
      func |-> "notes.add_note"],
     [name |-> <<"d","e","l","e","t","e"," ","n","o","t","e">>,
      func |-> "notes.delete_note"],
     [name |-> <<"s","h","o","w"," ","a","l","l"," ","n","o","t","e","s">>,
      func |-> "notes.show_all_notes"],
     [name |-> <<"s","e","a","r","c","h"," ","n","o","t","e">>,
      func |-> "notes.search_note"],
     [name |-> <<"a","d","d"," ","t","a","g","s">>,
      func |-> "notes.add_tags_by_title"],
     [name |-> <<"c","h","a","n","g","e"," ","n","o","t","e","'","s"," ","t","i","t","l","e">>,
      func |-> "notes.change_note_title"],
     [name |-> <<"c","h","a","n","g","e"," ","n","o","t","e","'","s"," ","c","o","n","t","e","n","t">>,
      func |-> "notes.change_note_content"] >>

ExitNames == { <<"g","o","o","d"," ","b","y","e">>, <<"c","l","o","s","e">>,
               <<"e","x","i","t">> }

S_unknown == <<"u","n","k","n","o","w","n">>

\* The first command, in table order, whose name the lowered input starts with.
RECURSIVE first_match(_, _)
first_match(low, i) ==
    IF i > Len(COMMANDS) THEN 0
    ELSE IF startswith(low, COMMANDS[i].name) THEN i
    ELSE first_match(low, i + 1)

parse_cli_command(cli_input_) ==
    LET i == first_match(lower(cli_input_), 1)
    IN  IF i = 0 THEN <<S_unknown, "unknown", <<>>>>
        ELSE <<COMMANDS[i].name, COMMANDS[i].func,
               split(strip(slice_from(cli_input_, Len(COMMANDS[i].name))))>>

(***************************************************************************)
(* Values.  None is the empty tuple: no string, date or list below is      *)
(* empty when it is set.                                                   *)
(***************************************************************************)
None == <<>>

\* int() of a string of decimal digits
RECURSIVE to_int(_, _)
to_int(s, acc) ==
    IF s = <<>> THEN acc
    ELSE to_int(Tail(s), 10 * acc + (IndexOf(Digits, Head(s)) - 1))

all_digits(s) == s # <<>> /\ \A i \in 1..Len(s) : IsIn(Digits, s[i])

DaysInMonth(m, y) ==
    IF m \in {4, 6, 9, 11} THEN 30
    ELSE IF m # 2 THEN 31
    ELSE IF (y % 4 = 0 /\ y % 100 # 0) \/ y % 400 = 0 THEN 29 ELSE 28

\* Birthday(text).value: the calendar date <<year, month, day>> that the text
\* day-month-year denotes, None for Birthday(None); "invalid" is reported by
\* Birthday_valid.  Leading zeros are optional, as in date parsing.
Birthday_parts(text) == split_sep(text, <<"-">>, <<>>, <<>>)

Birthday_valid(text) ==
    \/ text = None
    \/ LET p == Birthday_parts(text)
       IN  /\ Len(p) = 3
           /\ \A i \in 1..3 : all_digits(p[i])
           /\ Len(p[1]) <= 2 /\ Len(p[2]) <= 2 /\ Len(p[3]) = 4
           /\ to_int(p[2], 0) \in 1..12
           /\ to_int(p[3], 0) >= 1
           /\ to_int(p[1], 0) \in 1..DaysInMonth(to_int(p[2], 0), to_int(p[3], 0))

Birthday_value(text) ==
    IF text = None THEN None
    ELSE LET p == Birthday_parts(text)
         IN  <<to_int(p[3], 0), to_int(p[2], 0), to_int(p[1], 0)>>

\* Phone: digits, with an optional leading "+"
Phone_valid(text) ==
    IF text # <<>> /\ Head(text) = "+" THEN all_digits(Tail(text)) ELSE all_digits(text)

\* Email: something@something
Email_valid(text) ==
    \E i \in 2..(Len(text) - 1) : text[i] = "@"

(***************************************************************************)
(* Exceptions.  The store's error kinds are raised as the classes that the *)
(* command layer catches: every store error is rendered as a message.      *)
(***************************************************************************)
ErrorClass(kind) ==
    CASE kind = "ValidationError"     -> "ValueError"
      [] kind = "DuplicateFieldError" -> "ValueError"
      [] kind = "NotFoundError"       -> "KeyError"
      [] kind = "NoBirthdayError"     -> "ValueError"
      [] kind = "PersistenceError"    -> "ValueError"
      [] kind = "AlreadyExistsError"  -> "RecordAlreadyExistsException"

(***************************************************************************)
(* Record: one contact.                                                    *)
(***************************************************************************)
\* The outcome of a Record method: the record after it, and the error kind
\* it failed with ("" when it returned).
RecOk(rec)    == [rec |-> rec, err |-> ""]
RecErr(rec, kind) == [rec |-> rec, err |-> kind]

\* Record(name=name, birthday=birthday)
Record_init(name, birthday) ==
    IF ~Birthday_valid(birthday)
    THEN RecErr([name |-> name, phones |-> <<>>, birthday |-> None,
                 address |-> None, email |-> None], "ValidationError")
    ELSE RecOk([name |-> name, phones |-> <<>>, birthday |-> Birthday_value(birthday),
                address |-> None, email |-> None])

\* Record.add_phone
Record_add_phone(rec, phone_num) ==
    IF ~Phone_valid(phone_num) THEN RecErr(rec, "ValidationError")
    ELSE IF IsIn(rec.phones, phone_num) THEN RecErr(rec, "DuplicateFieldError")
    ELSE RecOk([rec EXCEPT !.phones = Append(@, phone_num)])

\* Record.edit_phone: replaces old_phone where it stands
Record_edit_phone(rec, old_phone, new_phone) ==
    IF ~IsIn(rec.phones, old_phone) THEN RecErr(rec, "NotFoundError")
    ELSE IF ~Phone_valid(new_phone) THEN RecErr(rec, "ValidationError")
    ELSE RecOk([rec EXCEPT !.phones[IndexOf(rec.phones, old_phone)] = new_phone])

\* Record.add_birthday: replaces the birthday
Record_add_birthday(rec, birthday) ==
    IF birthday = None \/ ~Birthday_valid(birthday) THEN RecErr(rec, "ValidationError")
    ELSE RecOk([rec EXCEPT !.birthday = Birthday_value(birthday)])

\* Record.add_address: empty and blank components are dropped
Record_add_address(rec, address) ==
    LET kept == SelectSeq(address, LAMBDA a : strip(a) # <<>>)
    IN  IF kept = <<>> THEN RecErr(rec, "ValidationError")
        ELSE RecOk([rec EXCEPT !.address = kept])

\* Record.add_email
Record_add_email(rec, email) ==
    IF ~Email_valid(email) THEN RecErr(rec, "ValidationError")
    ELSE RecOk([rec EXCEPT !.email = email])

(***************************************************************************)
(* The store as a command sees it: st.contacts and st.disk, the calls made *)
(* so far (st.calls) and the number of failed flushes (st.failures).       *)
(* A function's outcome is [st, ret, exc]: the store after it, the value   *)
(* it returned (or the message of the exception it raised) and the class   *)
(* of that exception ("" when it returned).                                *)
(***************************************************************************)
Msg(kind, text, data) == [kind |-> kind, text |-> text, data |-> data]

Return(st, ret) == [st |-> st, ret |-> ret, exc |-> ""]

Raise(st, cls, text, data) == [st |-> st, ret |-> Msg("error", text, data), exc |-> cls]

Called(st, op, key) ==
    [st EXCEPT !.calls = Append(@, [op |-> op, key |-> key,
                                    present |-> \E i \in 1..Len(st.contacts) :
                                                    st.contacts[i].name = key])]

\* position of the record with this key in the store, 0 when there is none
key_index(recs, name) ==
    IF \E i \in 1..Len(recs) : recs[i].name = name
    THEN CHOOSE i \in 1..Len(recs) : recs[i].name = name
    ELSE 0

remove_at(recs, i) == SubSeq(recs, 1, i - 1) \o SubSeq(recs, i + 1, Len(recs))

\* The persistence adapter's save: the whole store is written, or the write
\* fails (io = FALSE) and the document stays as it was.
save_data(st, io) ==
    IF io THEN Return([st EXCEPT !.disk = st.contacts], None)
    ELSE Raise([st EXCEPT !.failures = @ + 1], ErrorClass("PersistenceError"),
               "save failed", <<>>)

\* AddressBook.find: the stored record itself (the caller's rec is the
\* store's object), or None.  Returns its position, 0 for None.
AddressBook_find(st, name) == key_index(st.contacts, name)

\* AddressBook.add_record
AddressBook_add_record(st, rec, io) ==
    LET st1 == Called(st, "add_record", rec.name)
    IN  IF key_index(st.contacts, rec.name) # 0
        THEN Raise(st1, ErrorClass("AlreadyExistsError"), "already exists", <<rec.name>>)
        ELSE save_data([st1 EXCEPT !.contacts = Append(@, rec)], io)

\* AddressBook.delete
AddressBook_delete(st, name, io) ==
    LET st1 == Called(st, "delete", name)
        i   == key_index(st.contacts, name)
    IN  IF i = 0
        THEN Raise(st1, ErrorClass("NotFoundError"), "no such key", <<name>>)
        ELSE save_data([st1 EXCEPT !.contacts = remove_at(@, i)], io)

\* AddressBook.update_record
AddressBook_update_record(st, rec, io) ==
    LET st1 == Called(st, "update_record", rec.name)
        i   == key_index(st.contacts, rec.name)
    IN  IF i = 0
        THEN Raise(st1, ErrorClass("NotFoundError"), "no such key", <<rec.name>>)
        ELSE save_data([st1 EXCEPT !.contacts[i] = rec], io)

\* A Record method called on the object that find returned changes the
\* record in the store at once: rec is not a copy.
Mutated(st, i, op, rec) ==
    [Called(st, op, rec.name) EXCEPT !.contacts[i] = rec]

\* AddressBook.search_contact: the records whose name or one of whose phones
\* contains the phrase, case-insensitively, in store order.
record_matches(rec, phrase) ==
    \/ contains(lower(rec.name), lower(phrase))
    \/ \E j \in 1..Len(rec.phones) : contains(lower(rec.phones[j]), lower(phrase))

AddressBook_search_contact(recs, search_phrase) ==
    LET hits == SelectSeq(recs, LAMBDA r : record_matches(r, search_phrase))
    IN  [i \in 1..Len(hits) |-> [name |-> hits[i].name, phones |-> hits[i].phones]]

\* AddressBook.iterator: pages of record_num records, one page of all the
\* records when record_num is None (0 here)
RECURSIVE pages(_, _)
pages(recs, n) ==
    IF recs = <<>> THEN <<>>
    ELSE IF n < 1 \/ Len(recs) <= n THEN <<recs>>
    ELSE <<SubSeq(recs, 1, n)>> \o pages(SubSeq(recs, n + 1, Len(recs)), n)

AddressBook_iterator(recs, record_num) == pages(recs, record_num)

\* Record.days_to_birthday, on the day the session runs
Today == <<2025, 3, 1>>

RECURSIVE day_of_year(_, _, _)
day_of_year(y, m, d) ==
    IF m = 1 THEN d ELSE DaysInMonth(m - 1, y) + day_of_year(y, m - 1, d)

IsLeap(y) == DaysInMonth(2, y) = 29

\* the birthday's month and day in year y, 29 February becoming 28 February
anniversary(bday, y) ==
    IF bday[2] = 2 /\ bday[3] = 29 /\ ~IsLeap(y) THEN <<y, 2, 28>>
    ELSE <<y, bday[2], bday[3]>>

Record_days_to_birthday(rec) ==
    LET this == anniversary(rec.birthday, Today[1])
        next == anniversary(rec.birthday, Today[1] + 1)
        t    == day_of_year(Today[1], Today[2], Today[3])
        a    == day_of_year(this[1], this[2], this[3])
    IN  IF a >= t THEN a - t
        ELSE (IF IsLeap(Today[1]) THEN 366 ELSE 365) - t
             + day_of_year(next[1], next[2], next[3])

AddressBook_get_contacts_upcoming_birthdays(recs, days_threshold) ==
    LET has  == SelectSeq(recs, LAMBDA r : r.birthday # None)
        near == SelectSeq(has, LAMBDA r : Record_days_to_birthday(r) <= days_threshold)
    IN  [i \in 1..Len(near) |-> [name |-> near[i].name, birthday |-> near[i].birthday,
                                 days_to_birthday |-> Record_days_to_birthday(near[i])]]

\* int(text)
int_valid(text) ==
    IF text # <<>> /\ Head(text) \in {"+", "-"} THEN all_digits(Tail(text))
    ELSE all_digits(text)

int(text) ==
    IF Head(text) = "-" THEN 0 - to_int(Tail(text), 0)
    ELSE IF Head(text) = "+" THEN to_int(Tail(text), 0)
    ELSE to_int(text, 0)

(***************************************************************************)
(* The command functions of bot.py, as written (before decoration).        *)
(***************************************************************************)
IndexError(st) == Raise(st, "IndexError", "tuple index out of range", <<>>)

\* a call with more positional arguments than the function takes
TypeError(st) == Raise(st, "TypeError", "takes 0 positional arguments", <<>>)

RecordError(st, kind) == Raise(st, ErrorClass(kind), kind, <<>>)

help_command(st, args) ==
    IF args # <<>> THEN TypeError(st)
    ELSE Return(st, Msg("ok", "List of supported commands", <<>>))

hello(st, args) ==
    IF args # <<>> THEN TypeError(st)
    ELSE Return(st, Msg("ok", "How can I help you?", <<>>))

good_bye(st, args) ==
    IF args # <<>> THEN TypeError(st)
    ELSE Return(st, Msg("ok", "Good bye!", <<>>))

unknown(st, args) ==
    IF args # <<>> THEN TypeError(st)
    ELSE Return(st, Msg("ok", "Unknown command. Try again.", <<>>))

\* add_contact as it would be if a name already stored were written over
add_contact_overwrites(st, args, io) ==
    IF Len(args) < 2 THEN IndexError(st)
    ELSE
    LET r0 == Record_init(args[1], IF Len(args) > 2 THEN args[3] ELSE None)
    IN  IF r0.err # "" THEN RecordError(st, r0.err)
        ELSE
        LET r1 == Record_add_phone(r0.rec, args[2])
        IN  IF r1.err # "" THEN RecordError(st, r1.err)
            ELSE
            LET a == IF key_index(st.contacts, args[1]) # 0
                     THEN AddressBook_update_record(st, r1.rec, io)
                     ELSE AddressBook_add_record(st, r1.rec, io)
            IN  IF a.exc # "" THEN a
                ELSE Return(a.st, Msg("ok", "has been successfully added",
                                      <<args[1], args[2],
                                        IF Len(args) > 2 THEN args[3] ELSE None>>))

add_contact(st, args, io) ==
    IF Len(args) < 2 THEN IndexError(st)
    ELSE
    LET name     == args[1]
        phone    == args[2]
        birthday == IF Len(args) > 2 THEN args[3] ELSE None
        r0       == Record_init(name, birthday)
    IN  IF r0.err # "" THEN RecordError(st, r0.err)
        ELSE
        LET r1 == Record_add_phone(r0.rec, phone)
        IN  IF r1.err # "" THEN RecordError(st, r1.err)
            ELSE
            LET a == AddressBook_add_record(st, r1.rec, io)
            IN  IF a.exc # "" THEN a
                ELSE Return(a.st, Msg("ok", "has been successfully added",
                                      <<name, phone, birthday>>))

\* delete_contact as it would be if a missing name were passed over in silence
delete_contact_quiet(st, args, io) ==
    IF Len(args) < 1 THEN IndexError(st)
    ELSE IF key_index(st.contacts, args[1]) = 0
    THEN Return(st, Msg("ok", "has been successfully deleted", <<args[1]>>))
    ELSE LET d == AddressBook_delete(st, args[1], io)
         IN  IF d.exc # "" THEN d
             ELSE Return(d.st, Msg("ok", "has been successfully deleted", <<args[1]>>))

delete_contact(st, args, io) ==
    IF Len(args) < 1 THEN IndexError(st)
    ELSE
    LET name == args[1]
        d    == AddressBook_delete(st, name, io)
    IN  IF d.exc # "" THEN d
        ELSE Return(d.st, Msg("ok", "has been successfully deleted", <<name>>))

DoesNotExist(st, name) ==
    Raise(st, "ValueError", "doesn't exist in the Address Book", <<name>>)

\* change_phone as it would be without the call of update_record
change_phone_unsaved(st, args, io) ==
    IF Len(args) < 3 THEN IndexError(st)
    ELSE
    LET st1 == Called(st, "find", args[1])
        i   == AddressBook_find(st, args[1])
    IN  IF i = 0 THEN DoesNotExist(st1, args[1])
        ELSE
        LET e == Record_edit_phone(st.contacts[i], args[2], args[3])
        IN  IF e.err # "" THEN RecordError(st1, e.err)
            ELSE Return(Mutated(st1, i, "edit_phone", e.rec),
                        Msg("ok", "phone changed", <<e.rec.name, args[2], args[3]>>))

\* change_phone as it would be if update_record were called before edit_phone
change_phone_saves_first(st, args, io) ==
    IF Len(args) < 3 THEN IndexError(st)
    ELSE
    LET st1 == Called(st, "find", args[1])
        i   == AddressBook_find(st, args[1])
    IN  IF i = 0 THEN DoesNotExist(st1, args[1])
        ELSE
        LET u == AddressBook_update_record(st1, st.contacts[i], io)
        IN  IF u.exc # "" THEN u
            ELSE
            LET e == Record_edit_phone(st.contacts[i], args[2], args[3])
            IN  IF e.err # "" THEN RecordError(u.st, e.err)
                ELSE Return(Mutated(u.st, i, "edit_phone", e.rec),
                            Msg("ok", "phone changed", <<e.rec.name, args[2], args[3]>>))

change_phone(st, args, io) ==
    IF Len(args) < 3 THEN IndexError(st)
    ELSE
    LET name      == args[1]
        old_phone == args[2]
        new_phone == args[3]
        st1       == Called(st, "find", name)
        i         == AddressBook_find(st, name)
    IN  IF i = 0 THEN DoesNotExist(st1, name)
        ELSE
        LET e == Record_edit_phone(st.contacts[i], old_phone, new_phone)
        IN  IF e.err # "" THEN RecordError(st1, e.err)
            ELSE
            LET u == AddressBook_update_record(Mutated(st1, i, "edit_phone", e.rec),
                                               e.rec, io)
            IN  IF u.exc # "" THEN u
                ELSE Return(u.st, Msg("ok", "phone changed",
                                      <<e.rec.name, old_phone, new_phone>>))

\* update_birthday as it would be without the test for an equal birthday
update_birthday_always(st, args, io) ==
    IF Len(args) < 2 THEN IndexError(st)
    ELSE
    LET st1 == Called(st, "find", args[1])
        i   == AddressBook_find(st, args[1])
    IN  IF i = 0 THEN DoesNotExist(st1, args[1])
        ELSE
        LET b == Record_add_birthday(st.contacts[i], args[2])
        IN  IF b.err # "" THEN RecordError(st1, b.err)
            ELSE
            LET u == AddressBook_update_record(
                         Mutated(st1, i, "add_birthday", b.rec), b.rec, io)
            IN  IF u.exc # "" THEN u
                ELSE Return(u.st, Msg("ok", "birthday changed",
                                      <<b.rec.name, b.rec.birthday, args[2]>>))

update_birthday(st, args, io) ==
    IF Len(args) < 2 THEN IndexError(st)
    ELSE
    LET name         == args[1]
        new_birthday == args[2]
        st1          == Called(st, "find", name)
        i            == AddressBook_find(st, name)
    IN  IF i = 0 THEN DoesNotExist(st1, name)
        ELSE
        LET rec == st.contacts[i]
        IN  IF ~Birthday_valid(new_birthday) THEN RecordError(st1, "ValidationError")
            ELSE IF rec.birthday = Birthday_value(new_birthday)
            THEN Return(st1, Msg("ok", "is equal to the previous value", <<rec.name>>))
            ELSE
            LET b == Record_add_birthday(rec, new_birthday)
            IN  IF b.err # "" THEN RecordError(st1, b.err)
                ELSE
                LET u == AddressBook_update_record(
                             Mutated(st1, i, "add_birthday", b.rec), b.rec, io)
                IN  IF u.exc # "" THEN u
                    \* the message is formatted from rec after add_birthday
                    ELSE Return(u.st, Msg("ok", "birthday changed",
                                          <<b.rec.name, b.rec.birthday, new_birthday>>))

find_contact_phone(st, args) ==
    IF Len(args) < 1 THEN IndexError(st)
    ELSE
    LET name == args[1]
        st1  == Called(st, "find", name)
        i    == AddressBook_find(st, name)
    IN  IF i = 0 THEN DoesNotExist(st1, name)
        ELSE Return(st1, Msg("ok", "phone numbers",
                             <<st.contacts[i].name, st.contacts[i].phones>>))

show_all(st, args) ==
    IF args # <<>> /\ ~int_valid(args[1])
    THEN Raise(st, "ValueError", "invalid literal for int()", <<>>)
    ELSE
    LET record_num == IF args # <<>> THEN int(args[1]) ELSE 0
        records    == AddressBook_iterator(st.contacts, record_num)
    IN  Return(Called(st, "iterator", None),
               Msg("ok", "address book",
                   [k \in 1..Len(records) |->
                       [j \in 1..Len(records[k]) |-> records[k][j].name]]))

\* search_contact as it would be if only the empty phrase were refused
search_contact_min1(st, args) ==
    IF Len(args) < 1 THEN IndexError(st)
    ELSE
    LET search_phrase == strip(args[1])
    IN  IF Len(search_phrase) < 1
        THEN Raise(st, "ValueError", "Searched phrase must have at least 2 symbols", <<>>)
        ELSE
        LET records == AddressBook_search_contact(st.contacts, search_phrase)
        IN  Return(Called(st, "search_contact", None),
                   Msg("ok", "search result",
                       [k \in 1..Len(records) |->
                           <<k, records[k].name, join(<<",">>, records[k].phones)>>]))

search_contact(st, args) ==
    IF Len(args) < 1 THEN IndexError(st)
    ELSE
    LET search_phrase == strip(args[1])
    IN  IF Len(search_phrase) < 2
        THEN Raise(st, "ValueError", "Searched phrase must have at least 2 symbols", <<>>)
        ELSE
        LET records == AddressBook_search_contact(st.contacts, search_phrase)
        IN  Return(Called(st, "search_contact", None),
                   Msg("ok", "search result",
                       [k \in 1..Len(records) |->
                           <<k, records[k].name, join(<<",">>, records[k].phones)>>]))

\* add_phone as it would be if a missing contact were made on the spot
add_phone_upsert(st, args, io) ==
    IF Len(args) < 2 THEN IndexError(st)
    ELSE
    LET st1 == Called(st, "find", args[1])
        i   == AddressBook_find(st, args[1])
        rec == IF i = 0 THEN Record_init(args[1], None).rec ELSE st.contacts[i]
        a   == Record_add_phone(rec, args[2])
    IN  IF a.err # "" THEN RecordError(st1, a.err)
        ELSE
        LET u == AddressBook_update_record(
                     IF i = 0 THEN Called(st1, "add_phone", args[1])
                     ELSE Mutated(st1, i, "add_phone", a.rec), a.rec, io)
        IN  IF u.exc # "" THEN u
            ELSE Return(u.st, Msg("ok", "phone added", <<a.rec.name>>))

add_phone(st, args, io) ==
    IF Len(args) < 2 THEN IndexError(st)
    ELSE
    LET name  == args[1]
        phone == args[2]
        st1   == Called(st, "find", name)
        i     == AddressBook_find(st, name)
    IN  IF i = 0 THEN DoesNotExist(st1, name)
        ELSE
        LET a == Record_add_phone(st.contacts[i], phone)
        IN  IF a.err # "" THEN RecordError(st1, a.err)
            ELSE
            LET u == AddressBook_update_record(Mutated(st1, i, "add_phone", a.rec),
                                               a.rec, io)
            IN  IF u.exc # "" THEN u
                ELSE Return(u.st, Msg("ok", "phone added", <<a.rec.name>>))

add_address(st, args, io) ==
    IF Len(args) < 1 THEN IndexError(st)
    ELSE
    LET name        == args[1]
        address_str == join(Sp, Tail(args))
        address     == split_sep(address_str, <<",", " ">>, <<>>, <<>>)
        st1         == Called(st, "find", name)
        i           == AddressBook_find(st, name)
    IN  IF i = 0 THEN DoesNotExist(st1, name)
        ELSE
        LET a == Record_add_address(st.contacts[i], address)
        IN  IF a.err # "" THEN RecordError(st1, a.err)
            ELSE
            LET u == AddressBook_update_record(Mutated(st1, i, "add_address", a.rec),
                                               a.rec, io)
            IN  IF u.exc # "" THEN u
                ELSE Return(u.st, Msg("ok", "address added",
                                      <<SelectSeq(address, LAMBDA x : x # <<>>),
                                        a.rec.name>>))

add_email(st, args, io) ==
    IF Len(args) < 2 THEN IndexError(st)
    ELSE
    LET name  == args[1]
        email == args[2]
        st1   == Called(st, "find", name)
        i     == AddressBook_find(st, name)
    IN  IF i = 0 THEN DoesNotExist(st1, name)
        ELSE
        LET a == Record_add_email(st.contacts[i], email)
        IN  IF a.err # "" THEN RecordError(st1, a.err)
            ELSE
            LET u == AddressBook_update_record(Mutated(st1, i, "add_email", a.rec),
                                               a.rec, io)
            IN  IF u.exc # "" THEN u
                ELSE Return(u.st, Msg("ok", "email added", <<a.rec.name>>))

show_days_to_birthday(st, args) ==
    IF Len(args) < 1 THEN IndexError(st)
    ELSE
    LET name == args[1]
        st1  == Called(st, "find", name)
        i    == AddressBook_find(st, name)
    IN  IF i = 0 THEN DoesNotExist(st1, name)
        ELSE IF st.contacts[i].birthday = None THEN RecordError(st1, "NoBirthdayError")
        ELSE Return(st1, Msg("ok", "days to the next birthday",
                             <<st.contacts[i].name,
                               Record_days_to_birthday(st.contacts[i])>>))

upcoming_birthdays(st, args) ==
    IF Len(args) < 1 THEN IndexError(st)
    ELSE IF ~int_valid(args[1])
    THEN Raise(st, "ValueError", "invalid literal for int()", <<>>)
    ELSE Return(Called(st, "get_contacts_upcoming_birthdays", None),
                Msg("ok", "upcoming birthdays",
                    AddressBook_get_contacts_upcoming_birthdays(st.contacts,
                                                                int(args[1]))))

\* The NotesBook methods registered in COMMANDS: they work on the notes
\* store only, which no contact command reads.
notes_method(st, func, args) == Return(st, Msg("ok", func, args))

(***************************************************************************)
(* input_error and the call of func with func_args in main.                *)
(***************************************************************************)
Caught == {"KeyError", "ValueError", "IndexError", "RecordAlreadyExistsException"}

input_error(r) ==
    IF r.exc = "KeyError"
    THEN Return(r.st, Msg("error", "There is no such key", <<r.ret.text>>))
    ELSE IF r.exc = "ValueError"
    THEN Return(r.st, Msg("error", "Passed values are incorrect", <<r.ret.text>>))
    ELSE IF r.exc = "IndexError"
    THEN Return(r.st, Msg("error", "Not all parameters have been passed", <<>>))
    ELSE IF r.exc = "RecordAlreadyExistsException"
    THEN Return(r.st, r.ret)
    ELSE r

\* the functions defined under @input_error
Decorated ==
    {"hello", "add_contact", "delete_contact", "change_phone", "update_birthday",
     "find_contact_phone", "show_all", "search_contact", "add_phone", "add_address",
     "add_email", "good_bye", "show_days_to_birthday", "upcoming_birthdays", "unknown"}

body(func, st, args, io) ==
    CASE func = "help_command"          -> help_command(st, args)
      [] func = "hello"                 -> hello(st, args)
      [] func = "add_contact"           -> add_contact(st, args, io)
      [] func = "delete_contact"        -> delete_contact(st, args, io)
      [] func = "change_phone"          -> change_phone(st, args, io)
      [] func = "update_birthday"       -> update_birthday(st, args, io)
      [] func = "find_contact_phone"    -> find_contact_phone(st, args)
      [] func = "show_all"              -> show_all(st, args)
      [] func = "good_bye"              -> good_bye(st, args)
      [] func = "show_days_to_birthday" -> show_days_to_birthday(st, args)
      [] func = "search_contact"        -> search_contact(st, args)
      [] func = "add_phone"             -> add_phone(st, args, io)
      [] func = "add_address"           -> add_address(st, args, io)
      [] func = "add_email"             -> add_email(st, args, io)
      [] func = "upcoming_birthdays"    -> upcoming_birthdays(st, args)
      [] func = "unknown"               -> unknown(st, args)
      [] OTHER                          -> notes_method(st, func, args)

call(func, st, args, io) ==
    IF func \in Decorated THEN input_error(body(func, st, args, io))
    ELSE body(func, st, args, io)

(***************************************************************************)
(* Words typed by the user in the checked sessions.                        *)
(***************************************************************************)
W_Anna == <<"A","n","n","a">>
W_Anton == <<"A","n","t","o","n">>
W_Boris == <<"B","o","r","i","s">>
W_P12 == <<"1","2">>
W_P34 == <<"3","4">>
W_Bad == <<"x","x">>
W_B1990 == <<"0","1","-","0","1","-","1","9","9","0">>
W_B1990short == <<"1","-","1","-","1","9","9","0">>
W_B1991 == <<"0","2","-","0","2","-","1","9","9","1">>
W_KyivComma == <<"K","y","i","v",",">>
W_Main == <<"M","a","i","n">>
W_Mail == <<"a","@","b">>
W_An == <<"a","n">>
W_A1 == <<"a">>
W_Zz == <<"z","z">>
W_World == <<"w","o","r","l","d">>
W_One == <<"1">>
W_Seven == <<"7">>
W_Foo == <<"f","o","o">>
W_Old == <<"O","l","d">>
W_New == <<"N","e","w">>

\* a command line: the command name followed by its arguments, space separated
Line(name, args) == join(Sp, <<name>> \o args)

Cmd(i) == COMMANDS[i].name

\* the lines typed in the contact sessions
Lines ==
    { Line(Cmd(3), <<W_Anna, W_P12>>),
      Line(Cmd(3), <<W_Anna, W_P34>>),
      Line(Cmd(3), <<W_Anna, W_P12, W_B1990>>),
      Line(Cmd(3), <<W_Boris, W_P12>>),
      Line(Cmd(3), <<W_Anna, W_Bad>>),
      Line(Cmd(3), <<W_Anna>>),
      Line(Cmd(4), <<W_Anna>>),
      Line(Cmd(4), <<W_Boris>>),
      Cmd(4),
      Line(Cmd(5), <<W_Anna, W_P12, W_P34>>),
      Line(Cmd(5), <<W_Anna, W_P12>>),
      Line(Cmd(6), <<W_Anna, W_B1990>>),
      Line(Cmd(6), <<W_Anna, W_B1990short>>),
      Line(Cmd(6), <<W_Anna, W_B1991>>),
      Line(Cmd(6), <<W_Anna, W_Bad>>),
      Line(Cmd(7), <<W_Anna>>),
      Line(Cmd(7), <<W_Boris>>),
      Line(Cmd(8), <<>>),
      Line(Cmd(8), <<W_One>>),
      Line(Cmd(8), <<W_Bad>>),
      Cmd(9), Cmd(10), Cmd(11),
      Line(Cmd(11), <<W_World>>),
      Line(Cmd(12), <<W_Anna>>),
      Line(Cmd(13), <<W_An>>),
      Line(Cmd(13), <<W_A1>>),
      Line(Cmd(14), <<W_Anna, W_P34>>),
      Line(Cmd(15), <<W_Anna, W_KyivComma, W_Main>>),
      Line(Cmd(16), <<W_Anna, W_Mail>>),
      Line(Cmd(16), <<W_Anna, W_Bad>>),
      Line(Cmd(17), <<W_Seven>>),
      Cmd(17),
      Line(Cmd(18), <<W_Foo>>),
      Cmd(1),
      Line(Cmd(1), <<W_World>>),
      Cmd(2),
      Line(Cmd(2), <<W_World>>),
      W_Foo }

\* the lines typed in the search sessions
SearchLines ==
    { Line(Cmd(3), <<W_Anna, W_P12>>),
      Line(Cmd(3), <<W_Anton, W_P34>>),
      Line(Cmd(3), <<W_Boris, W_P12>>),
      Line(Cmd(4), <<W_Anna>>),
      Line(Cmd(4), <<W_Anton>>),
      Line(Cmd(13), <<W_An>>),
      Line(Cmd(13), <<upper(W_An)>>),
      Line(Cmd(13), <<W_A1>>),
      Line(Cmd(13), <<W_Zz>>),
      Line(Cmd(13), <<W_P12>>),
      Cmd(13) }

\* the lines given to the parser alone: every command name bare, followed by
\* two words, and in capitals followed by two words; and lines that start
\* with no command name
ParseLines ==
    UNION { { Cmd(i),
              Line(Cmd(i), <<W_Old, W_New>>),
              Line(upper(Cmd(i)), <<W_Old, W_New>>) } : i \in 1..Len(COMMANDS) }
    \cup { <<>>, W_Foo, Line(W_Foo, <<W_Old>>), Line(W_Anna, <<Cmd(1)>>) }

\* parse_cli_command on each line that is typed, computed once per line
Resolved == { <<line, parse_cli_command(line)>> : line \in Lines \cup SearchLines \cup ParseLines }

Resolve(line) == (CHOOSE t \in Resolved : t[1] = line)[2]

(***************************************************************************)
(* The session: main's loop, one iteration per step.                       *)
(***************************************************************************)
NoOutput == Msg("none", "", <<>>)

Unresolved == <<None, "", <<>>>>

Init ==
    /\ cli_input = None
    /\ resolved = Unresolved
    /\ contacts = <<>>
    /\ disk = <<>>
    /\ status = "running"
    /\ printed = NoOutput
    /\ raised = ""
    /\ calls = <<>>
    /\ pre = <<>>
    /\ pre_disk = <<>>
    /\ failures = 0
    /\ pc = "prompt"
    /\ fs_files = {}
    /\ fs_dirs = {}
    /\ fs0 = {}
    /\ pending = {}
    /\ fo_status = "idle"

\* One pass through the body of the loop of main on the line that prompt()
\* returned: parse, call, print, and the test for the exit commands.
\* io tells whether a flush attempted in this pass succeeds.
main(line, io) ==
    /\ pc = "prompt"
    /\ status = "running"
    /\ io \/ failures < MaxFlushFailures
    /\ \E p \in {Resolve(line)} :
       \E r \in {call(p[2], [contacts |-> contacts, disk |-> disk, calls |-> <<>>,
                             failures |-> failures], p[3], io)} :
           /\ cli_input' = line
           /\ resolved' = p
           /\ contacts' = r.st.contacts
           /\ disk' = r.st.disk
           /\ calls' = r.st.calls
           /\ failures' = r.st.failures
           /\ pre' = contacts
           /\ pre_disk' = disk
           /\ IF r.exc # ""
              THEN /\ raised' = r.exc
                   /\ printed' = NoOutput
                   /\ status' = "crashed"
              ELSE /\ raised' = ""
                   /\ printed' = r.ret
                   /\ status' = IF p[1] \in ExitNames THEN "ended" ELSE "running"
    /\ pc' = "loop"
    /\ UNCHANGED fovars

\* while True: no break was taken, the next pass starts; what the last pass
\* read, resolved and printed is not read again.
loop_back ==
    /\ pc = "loop"
    /\ status = "running"
    /\ pc' = "prompt"
    /\ cli_input' = None
    /\ resolved' = Unresolved
    /\ printed' = NoOutput
    /\ raised' = ""
    /\ calls' = <<>>
    /\ pre' = <<>>
    /\ pre_disk' = <<>>
    /\ UNCHANGED <<contacts, disk, status, failures>>
    /\ UNCHANGED fovars

Next ==
    \/ \E line \in Lines, io \in BOOLEAN : main(line, io)
    \/ loop_back

Spec == Init /\ [][Next]_vars

NextSearch ==
    \/ \E line \in SearchLines, io \in BOOLEAN : main(line, io)
    \/ loop_back

SpecSearch == Init /\ [][NextSearch]_vars

(***************************************************************************)
(* The parser alone, on one line.                                          *)
(***************************************************************************)
InitParse ==
    /\ cli_input \in ParseLines
    /\ resolved = Unresolved
    /\ contacts = <<>>
    /\ disk = <<>>
    /\ status = "running"
    /\ printed = NoOutput
    /\ raised = ""
    /\ calls = <<>>
    /\ pre = <<>>
    /\ pre_disk = <<>>
    /\ failures = 0
    /\ pc = "read"
    /\ fs_files = {}
    /\ fs_dirs = {}
    /\ fs0 = {}
    /\ pending = {}
    /\ fo_status = "idle"

Parse ==
    /\ pc = "read"
    /\ resolved' = parse_cli_command(cli_input)
    /\ pc' = "parsed"
    /\ UNCHANGED <<cli_input, contacts, disk, status, printed, raised, calls,
                   pre, pre_disk, failures>>
    /\ UNCHANGED fovars

NextParse == Parse

SpecParse == InitParse /\ [][NextParse]_vars

(***************************************************************************)
(* FileOrganizer (bot_helper/sort_files.py).  A path below root_dir is the *)
(* tuple of its components; a regular file is [dir, name, orig], orig      *)
(* being the path it had when organize_files was called, by which the file *)
(* is told from every other.                                               *)
(***************************************************************************)
categories ==
  << [cat |-> <<"A","u","d","i","o">>,
      exts |-> {<<".","m","p","3">>, <<".","w","a","v">>, <<".","o","g","g">>, <<".","a","m","r">>}],
     [cat |-> <<"D","o","c","s">>,
      exts |-> {<<".","d","o","c">>, <<".","d","o","c","x">>, <<".","t","x","t">>, <<".","p","d","f">>, <<".","x","l","s","x">>, <<".","p","p","t","x">>}],
     [cat |-> <<"I","m","a","g","e","s">>,
      exts |-> {<<".","j","p","e","g">>, <<".","p","n","g">>, <<".","j","p","g">>, <<".","s","v","g">>}],
     [cat |-> <<"V","i","d","e","o">>,
      exts |-> {<<".","a","v","i">>, <<".","m","p","4">>, <<".","m","o","v">>, <<".","m","k","v">>}],
     [cat |-> <<"A","r","c","h","i","v","e","s">>,
      exts |-> {<<".","z","i","p">>, <<".","g","z">>, <<".","t","a","r">>, <<".","r","a","r">>}] >>

S_Other == <<"O","t","h","e","r">>

IsAlnum(c) == IsIn(UpperAlpha, c) \/ IsIn(LowerAlpha, c) \/ IsIn(Digits, c)

\* translit(text, 'uk', reversed=True): Ukrainian letters to Latin ones; the
\* other characters, the only ones in the names used here, stay as they are
translit_uk_reversed(text) == text

\* FileOrganizer.normalize
normalize(text) ==
    lower([i \in 1..Len(translit_uk_reversed(text)) |->
              IF IsAlnum(translit_uk_reversed(text)[i])
              THEN translit_uk_reversed(text)[i] ELSE "_"])

\* str.rfind('.') counted from 1, 0 when there is no dot
RECURSIVE rfind_dot(_, _)
rfind_dot(name, i) ==
    IF i = 0 THEN 0 ELSE IF name[i] = "." THEN i ELSE rfind_dot(name, i - 1)

\* Path.suffix: from the last dot, unless the dot leads or ends the name
suffix(name) ==
    LET i == rfind_dot(name, Len(name))
    IN  IF 1 < i /\ i < Len(name) THEN SubSeq(name, i, Len(name)) ELSE <<>>

\* Path.stem
stem(name) ==
    LET i == rfind_dot(name, Len(name))
    IN  IF 1 < i /\ i < Len(name) THEN SubSeq(name, 1, i - 1) ELSE name

RECURSIVE category_from(_, _)
category_from(ext, k) ==
    IF k > Len(categories) THEN S_Other
    ELSE IF ext \in categories[k].exts THEN categories[k].cat
    ELSE category_from(ext, k + 1)

\* FileOrganizer.get_category
get_category(name) == category_from(lower(suffix(name)), 1)

PathOf(f) == Append(f.dir, f.name)

\* Path.exists
path_exists(files, dirs, path) ==
    path \in dirs \/ \E f \in files : PathOf(f) = path

\* Path.is_file
is_file(files, path) == \E f \in files : PathOf(f) = path

\* FileOrganizer.move_file: the files, the directories, the new path of the
\* file and the error raised by file.replace ("" when move_file returned)
move_file(files, dirs, file, category) ==
    LET target_dir   == <<category>>
        dirs1        == IF path_exists(files, dirs, target_dir) THEN dirs
                        ELSE dirs \cup {target_dir}
        new_filename == normalize(stem(file.name)) \o suffix(file.name)
        new_path     == Append(target_dir, new_filename)
    IN  IF path_exists(files, dirs1, new_path)
        THEN [files |-> files, dirs |-> dirs1, path |-> PathOf(file), err |-> ""]
        ELSE IF target_dir \notin dirs1
        \* root_dir/<category> is a regular file: os.replace fails
        THEN [files |-> files, dirs |-> dirs1, path |-> PathOf(file),
              err |-> "NotADirectoryError"]
        ELSE [files |-> (files \ {file})
                        \cup {[file EXCEPT !.dir = target_dir, !.name = new_filename]},
              dirs  |-> dirs1, path |-> new_path, err |-> ""]

\* the names and the directories of the trees that are organized
F_MyFile == <<"M","y"," ","F","i","l","e",".","t","x","t">>
F_my_file == <<"m","y","_","f","i","l","e",".","t","x","t">>
F_Song == <<"s","o","n","g",".","M","P","3">>
F_Other == <<"O","t","h","e","r">>
F_hidden == <<".","h","i","d","d","e","n">>

S_sub == <<"s","u","b">>

FileNames == {F_MyFile, F_my_file, F_Song, F_Other, F_hidden}

StartDirs == { <<>>, <<S_sub>>, <<categories[2].cat>> }

Places == { <<d, n>> : d \in StartDirs, n \in FileNames }

InitOrganize ==
    /\ cli_input = None
    /\ resolved = Unresolved
    /\ contacts = <<>>
    /\ disk = <<>>
    /\ status = "running"
    /\ printed = NoOutput
    /\ raised = ""
    /\ calls = <<>>
    /\ pre = <<>>
    /\ pre_disk = <<>>
    /\ failures = 0
    /\ pc = "organize"
    /\ \E chosen \in SUBSET Places :
          /\ Cardinality(chosen) <= MaxFiles
          /\ fs_files = { [dir |-> c[1], name |-> c[2], orig |-> Append(c[1], c[2])] :
                          c \in chosen }
          /\ fs_dirs = {<<>>} \cup { c[1] : c \in chosen }
    /\ fs0 = fs_files
    /\ pending = { PathOf(f) : f \in fs_files }
    /\ fo_status = "walking"

\* One turn of the loop of organize_files on the element that glob yields.
\* The order in which glob yields is the file system's.  A file moved into a
\* directory that glob has not listed yet is yielded again from there
\* (revisit), which can only be a directory that was there from the start.
organize_files(element, revisit) ==
    /\ pc = "organize"
    /\ fo_status = "walking"
    /\ element \in pending
    /\ IF ~is_file(fs_files, element)
       THEN /\ pending' = pending \ {element}
            /\ UNCHANGED <<fs_files, fs_dirs, fo_status>>
       ELSE \E file \in { f \in fs_files : PathOf(f) = element } :
            \E m \in { move_file(fs_files, fs_dirs, file, get_category(file.name)) } :
               /\ fs_files' = m.files
               /\ fs_dirs' = m.dirs
               /\ fo_status' = IF m.err # "" THEN "crashed" ELSE "walking"
               /\ pending' = (pending \ {element})
                             \cup (IF revisit /\ m.path # element
                                      /\ <<get_category(file.name)>> \in
                                            { f.dir : f \in fs0 }
                                   THEN {m.path} ELSE {})
    /\ UNCHANGED <<cli_input, resolved, contacts, disk, status, printed, raised, calls,
                   pre, pre_disk, failures, pc, fs0>>

\* glob is exhausted: organize_files returns
organize_files_return ==
    /\ pc = "organize"
    /\ fo_status = "walking"
    /\ pending = {}
    /\ fo_status' = "done"
    /\ UNCHANGED <<cli_input, resolved, contacts, disk, status, printed, raised, calls,
                   pre, pre_disk, failures, pc, fs_files, fs_dirs, fs0, pending>>

NextOrganize ==
    \/ \E element \in pending, revisit \in BOOLEAN : organize_files(element, revisit)
    \/ organize_files_return

SpecOrganize == InitOrganize /\ [][NextOrganize]_vars

(***************************************************************************)
(* Properties.  A state with pc = "loop" is the state right after one pass *)
(* of the loop: resolved, printed, raised and calls are that pass's, pre   *)
(* and pre_disk the store and the document before it.                      *)
(***************************************************************************)
Executed == pc = "loop"

func_name == resolved[1]
func      == resolved[2]
func_args == resolved[3]

Keys(recs) == { recs[i].name : i \in 1..Len(recs) }

Ops(cs) == { cs[i].op : i \in 1..Len(cs) }

Last(seq) == seq[Len(seq)]

\* the pass printed the message of input_error for the given exception
PrintedError(text) == printed.kind = "error" /\ printed.text = text

\* the pass printed a message that reports an error, whichever
PrintedAnyError == printed.kind = "error"

\* the arguments of an add contact from which a record can be built
WellFormedAdd ==
    /\ Len(func_args) >= 2
    /\ Phone_valid(func_args[2])
    /\ Len(func_args) > 2 => Birthday_valid(func_args[3])

\* C1: The store holds at most one record per name.  An add contact that
\* names a contact already in the store leaves every stored record and the
\* number of records as they were and prints an error; when its arguments
\* make a record (a valid phone, a valid birthday if any) the error is the
\* already-exists error, returned by input_error, and the session goes on.
\* An add contact of a record whose name is absent leaves in the store, under
\* that name, a record with exactly the one phone given, and every other
\* record as it was.
C1_AddNeverOverwrites ==
    /\ \A i, j \in 1..Len(contacts) : contacts[i].name = contacts[j].name => i = j
    /\ (Executed /\ func = "add_contact" /\ Len(func_args) >= 1
          /\ func_args[1] \in Keys(pre))
       => /\ contacts = pre
          /\ Len(contacts) = Len(pre)
          /\ status = "running"
          /\ PrintedAnyError
          /\ WellFormedAdd => /\ printed.text = "already exists"
                              /\ printed.data = <<func_args[1]>>
                              /\ Last(calls).op = "add_record"
    /\ (Executed /\ func = "add_contact" /\ WellFormedAdd
          /\ func_args[1] \notin Keys(pre))
       => /\ Len(contacts) = Len(pre) + 1
          /\ SubSeq(contacts, 1, Len(pre)) = pre
          /\ Last(contacts).name = func_args[1]
          /\ Last(contacts).phones = <<func_args[2]>>
          /\ contacts[key_index(contacts, func_args[1])].phones = <<func_args[2]>>

\* C1 witness: an add contact with another phone was refused for a name that
\* is in the store, which holds two records.
C1_Witness ==
    /\ Executed /\ func = "add_contact" /\ WellFormedAdd
    /\ func_args[1] \in Keys(pre)
    /\ pre[key_index(pre, func_args[1])].phones # <<func_args[2]>>
    /\ Len(contacts) = 2
    /\ printed.text = "already exists"

\* C2: The session ends only on good bye, close or exit: after a pass on any
\* other line the loop is still running and a message was printed.
C2_OnlyExitCommandsEndTheSession ==
    /\ status # "running" => func_name \in ExitNames
    /\ (Executed /\ func_name \notin ExitNames)
       => /\ status = "running"
          /\ raised = ""
          /\ printed # NoOutput

FieldFuncs == {"change_phone", "add_phone", "add_address", "add_email", "update_birthday"}

\* the record method that each field-level command calls
Mutator(f) ==
    CASE f = "change_phone"    -> "edit_phone"
      [] f = "add_phone"       -> "add_phone"
      [] f = "add_address"     -> "add_address"
      [] f = "add_email"       -> "add_email"
      [] f = "update_birthday" -> "add_birthday"

SuccessTexts ==
    {"has been successfully added", "has been successfully deleted", "phone changed",
     "birthday changed", "phone added", "address added", "email added"}

\* C3: A command that reports a successful mutation made its store call
\* last, after any change to the record: add contact ends with add_record,
\* delete contact with delete, a field-level edit with the record method
\* followed by update_record on the record named; and whenever a pass that
\* changed the store in memory prints a success message, the document holds
\* the store as it is now.
C3_SuccessMeansPersisted ==
    (Executed /\ printed.kind = "ok")
    => /\ (func = "add_contact" /\ printed.text = "has been successfully added")
          => /\ calls # <<>> /\ Last(calls).op = "add_record"
             /\ Last(calls).key = func_args[1]
       /\ (func = "delete_contact") => /\ calls # <<>> /\ Last(calls).op = "delete"
                                       /\ Last(calls).key = func_args[1]
       /\ (func \in FieldFuncs /\ printed.text \in SuccessTexts)
          => /\ Len(calls) >= 2
             /\ Last(calls).op = "update_record"
             /\ Last(calls).key = func_args[1]
             /\ calls[Len(calls) - 1].op = Mutator(func)
       /\ contacts # pre => /\ printed.text \in SuccessTexts
                            /\ Last(calls).op \in {"add_record", "delete", "update_record"}
                            /\ disk = contacts
       /\ printed.text \in SuccessTexts => disk = contacts

\* C3 witness: a change of phone was reported as done while an earlier
\* failed flush had left the document behind the store.
C3_Witness ==
    /\ Executed /\ func = "change_phone" /\ printed.text = "phone changed"
    /\ pre_disk # pre
    /\ disk = contacts /\ contacts # pre
\* C4: A line that starts, in any letter case, with a registered command
\* name resolves to that name and its function, with the words after the
\* name as arguments; a line that starts with no registered name resolves to
\* unknown with no arguments.
C4_EveryCommandResolvesToItself ==
    pc = "parsed"
    => /\ \A i \in 1..Len(COMMANDS) :
            startswith(lower(cli_input), Cmd(i))
            => resolved = <<Cmd(i), COMMANDS[i].func,
                            split(slice_from(cli_input, Len(Cmd(i))))>>
       /\ (\A i \in 1..Len(COMMANDS) : ~startswith(lower(cli_input), Cmd(i)))
          => resolved = <<S_unknown, "unknown", <<>>>>

DoesNotExistPrinted ==
    /\ PrintedError("Passed values are incorrect")
    /\ printed.data = <<"doesn't exist in the Address Book">>

\* C5: After a delete contact that reports success the name is not in the
\* store and the other records are as they were; a name enters the store
\* only by an add contact of that name; a phone lookup of a name that is not
\* in the store reports that the contact does not exist; a delete contact of
\* a name that is not in the store prints an error and leaves the store and
\* the document as they were.
C5_DeleteThenNotFound ==
    /\ (Executed /\ func = "delete_contact"
          /\ printed.text = "has been successfully deleted")
       => /\ func_args[1] \in Keys(pre)
          /\ func_args[1] \notin Keys(contacts)
          /\ contacts = remove_at(pre, key_index(pre, func_args[1]))
    /\ (Executed /\ Keys(contacts) \ Keys(pre) # {})
       => /\ func = "add_contact"
          /\ Keys(contacts) \ Keys(pre) = {func_args[1]}
    /\ (Executed /\ func = "find_contact_phone" /\ Len(func_args) >= 1
          /\ func_args[1] \notin Keys(pre))
       => DoesNotExistPrinted
    /\ (Executed /\ func = "delete_contact" /\ Len(func_args) >= 1
          /\ func_args[1] \notin Keys(pre))
       => /\ PrintedError("There is no such key")
          /\ contacts = pre
          /\ disk = pre_disk
          /\ status = "running"

\* C5 witness: a delete contact of a name that is not in the store, which
\* holds another contact.
C5_Witness ==
    /\ Executed /\ func = "delete_contact" /\ Len(func_args) >= 1
    /\ func_args[1] \notin Keys(pre)
    /\ pre # <<>>
    /\ PrintedError("There is no such key")

RowNames(rows) == [k \in 1..Len(rows) |-> rows[k][2]]

NamesOf(recs) == [i \in 1..Len(recs) |-> recs[i].name]

\* C6: A search with a phrase of fewer than 2 characters prints the
\* validation error and makes no store call.  A search with a longer phrase
\* prints a result: its rows are numbered from 1, name exactly the records
\* whose name or phone contains the phrase, and stand in store order; with
\* no such record the result has no rows.  With Anna, Anton and Boris
\* stored in that order, the phrase an lists Anna, then Anton.
C6_SearchMinimumLength ==
    (Executed /\ func = "search_contact" /\ Len(func_args) >= 1)
    => IF Len(func_args[1]) < 2
       THEN /\ PrintedError("Passed values are incorrect")
            /\ printed.data = <<"Searched phrase must have at least 2 symbols">>
            /\ calls = <<>>
            /\ contacts = pre
       ELSE /\ printed.kind = "ok"
            /\ status = "running"
            /\ contacts = pre
            /\ \A k \in 1..Len(printed.data) :
                  /\ printed.data[k][1] = k
                  /\ printed.data[k][2] \in Keys(pre)
                  /\ printed.data[k][3] =
                        join(<<",">>, pre[key_index(pre, printed.data[k][2])].phones)
            /\ \A k \in 1..(Len(printed.data) - 1) :
                  key_index(pre, printed.data[k][2]) < key_index(pre, printed.data[k + 1][2])
            /\ \A i \in 1..Len(pre) :
                  record_matches(pre[i], func_args[1])
                  <=> \E k \in 1..Len(printed.data) : printed.data[k][2] = pre[i].name
            /\ (NamesOf(pre) = <<W_Anna, W_Anton, W_Boris>> /\ func_args[1] = W_An)
               => RowNames(printed.data) = <<W_Anna, W_Anton>>

\* C6 witness: the phrase an was searched in the store Anna, Anton, Boris.
C6_Witness ==
    /\ Executed /\ func = "search_contact"
    /\ func_args = <<W_An>>
    /\ NamesOf(pre) = <<W_Anna, W_Anton, W_Boris>>
    /\ RowNames(printed.data) = <<W_Anna, W_Anton>>

\* C7: update_record is only called for a key that is in the store; a
\* field-level command that names a contact that is not in the store prints
\* an error, calls no update_record and leaves the store as it was.
C7_EditIsNeverAnAdd ==
    /\ \A k \in 1..Len(calls) : calls[k].op = "update_record" => calls[k].present
    /\ (Executed /\ func \in FieldFuncs /\ Len(func_args) >= 1
          /\ func_args[1] \notin Keys(pre))
       => /\ PrintedAnyError
          /\ "update_record" \notin Ops(calls)
          /\ Keys(contacts) = Keys(pre)
          /\ contacts = pre
          /\ status = "running"

\* C7 witness: an email was given for a contact that is not in the store,
\* which holds another contact.
C7_Witness ==
    /\ Executed /\ func = "add_email" /\ Len(func_args) >= 2
    /\ func_args[1] \notin Keys(pre)
    /\ pre # <<>>
    /\ DoesNotExistPrinted

\* the flush of the update_record of this pass failed
UpdateFlushFailed ==
    /\ Executed /\ func \in FieldFuncs
    /\ calls # <<>> /\ Last(calls).op = "update_record"
    /\ PrintedError("Passed values are incorrect")
    /\ printed.data = <<"save failed">>

\* the record of the edited contact shows the edit
ShowsEdit(rec, old) ==
    CASE func = "change_phone" ->
             /\ Len(rec.phones) = Len(old.phones)
             /\ rec.phones[IndexOf(old.phones, func_args[2])] = func_args[3]
      [] func = "add_phone" -> rec.phones = Append(old.phones, func_args[2])
      [] func = "add_email" -> rec.email = func_args[2]
      [] func = "update_birthday" ->
             rec.birthday = Birthday_value(func_args[2]) /\ rec.birthday # old.birthday
      [] func = "add_address" ->
             rec.address # None /\ join(<<",", " ">>, rec.address) = join(Sp, Tail(func_args))

\* C8 as claimed: when the flush of a field-level edit fails, the store in
\* memory holds the record as it was before the command.
C8_FailedEditRolledBack ==
    UpdateFlushFailed => contacts = pre

\* C8 as amended: when the flush of a field-level edit fails, the command
\* prints an error, the document is as it was before the command, and the
\* store in memory holds the edited record: only the named contact's record
\* may differ from before, and it shows the edit.
C8_FailedEditStaysInMemory ==
    UpdateFlushFailed
    => /\ disk = pre_disk
       /\ Len(contacts) = Len(pre)
       /\ \A i \in 1..Len(pre) :
             IF pre[i].name = func_args[1]
             THEN contacts[i].name = pre[i].name /\ ShowsEdit(contacts[i], pre[i])
             ELSE contacts[i] = pre[i]

\* C8 witness: the flush of a change of phone failed and the new phone is in
\* the store, not in the document.
C8_Witness ==
    /\ UpdateFlushFailed /\ func = "change_phone"
    /\ contacts # pre
    /\ disk = pre_disk
    /\ IsIn(contacts[key_index(contacts, func_args[1])].phones, func_args[3])

\* C9: An update birthday that gives an existing contact the birthday it
\* already has prints that the value is unchanged, calls neither
\* add_birthday nor update_record, and leaves the store and the document as
\* they were.
C9_SameBirthdayIsNotPersisted ==
    (Executed /\ func = "update_birthday" /\ Len(func_args) >= 2
       /\ func_args[1] \in Keys(pre)
       /\ Birthday_valid(func_args[2])
       /\ pre[key_index(pre, func_args[1])].birthday = Birthday_value(func_args[2]))
    => /\ printed = Msg("ok", "is equal to the previous value", <<func_args[1]>>)
       /\ Ops(calls) = {"find"}
       /\ contacts = pre
       /\ disk = pre_disk
       /\ status = "running"

\* C9 witness: the stored birthday was given again, written without the
\* leading zeros, while the document was behind the store.
C9_Witness ==
    /\ Executed /\ func = "update_birthday"
    /\ func_args = <<W_Anna, W_B1990short>>
    /\ printed.text = "is equal to the previous value"
    /\ pre_disk # pre

\* C10: The message of a changed birthday names the birthday stored before
\* the command as the old value and the birthday given as the new one.
C10_MessageNamesOldBirthday ==
    (Executed /\ func = "update_birthday" /\ printed.text = "birthday changed")
    => /\ printed.data[2] = pre[key_index(pre, func_args[1])].birthday
       /\ printed.data[3] = func_args[2]

OrigName(f) == Last(f.orig)

\* no file that was there when organize_files was called is gone, and no two
\* files lie at one path
NoFileLost ==
    /\ { f.orig : f \in fs_files } = { f.orig : f \in fs0 }
    /\ Cardinality(fs_files) = Cardinality(fs0)
    /\ \A f, g \in fs_files : PathOf(f) = PathOf(g) => f = g

\* C11: When organize_files has returned, every regular file lies directly
\* in the directory of the category that get_category gives its extension,
\* under its normalized name with its suffix, and no file that was there
\* before is lost or written over.
C11_EveryFileInItsCategory ==
    fo_status = "done"
    => /\ \A f \in fs_files :
             /\ f.dir = <<get_category(OrigName(f))>>
             /\ f.name = normalize(stem(OrigName(f))) \o suffix(OrigName(f))
       /\ NoFileLost

\* The part of C11 that the code keeps, whether organize_files returns or
\* fails: no file is lost or written over, and a file is either where it was
\* or in its category directory under its normalized name.
C11_NoFileLostOrOverwritten ==
    /\ NoFileLost
    /\ \A f \in fs_files :
          \/ PathOf(f) = f.orig
          \/ /\ f.dir = <<get_category(OrigName(f))>>
             /\ f.name = normalize(stem(OrigName(f))) \o suffix(OrigName(f))

====
